---- MODULE Spec2Model ----
(***************************************************************************)
(* balbm::d2q9::Lattice (include/lattice.hh) as a state machine.           *)
(*                                                                         *)
(* The C++ type `unsigned` is modelled as an UIntBits-wide word (a scaled  *)
(* stand-in for the 32-bit word of the build) and `int` as its two's       *)
(* complement reading; every unsigned expression of the source is reduced  *)
(* modulo 2^UIntBits where the source computes it in `unsigned`.           *)
(*                                                                         *)
(* Four specifications share the state:                                    *)
(*   Spec        construction, set_node_desc, node_desc, ~Lattice          *)
(*   SpecBounds  in_bounds / check_bounds                                  *)
(*   SpecAccess  f, ftemp, f_, ft_ and swap_f_ptrs                         *)
(*   SpecStep    set_node_desc, whole-grid stream / collide_and_bound,     *)
(*               swap_f_ptrs                                               *)
(***************************************************************************)
EXTENDS Integers, Sequences, FiniteSets, TLC

(***************************************************************************)
(* Bounds of the model.                                                    *)
(***************************************************************************)
\* width of `unsigned` / `int` in the model
UIntBits == 8
\* lattice sizes explored by Spec: 0..MaxNi x 0..MaxNj
MaxNi == 2
MaxNj == 2
\* lattice sizes explored by SpecStep: 0..MaxStepNi x 0..MaxStepNj
MaxStepNi == 1
MaxStepNj == 2
\* lattice sizes explored by SpecAccess: 0..MaxAccNi x 0..MaxAccNj
MaxAccNi == 10
MaxAccNj == 1
\* sizeof of the largest concrete node descriptor, in arena units
MaxNodeDescSize == 2
\* number of set_node_desc calls explored
MaxSetCalls == 3

(***************************************************************************)
(* Integer types.                                                          *)
(***************************************************************************)
UIntMod == 2 ^ UIntBits
IntHalf == 2 ^ (UIntBits - 1)
\* conversion to unsigned (modular)
ToUnsigned(x) == x % UIntMod
\* conversion unsigned -> int (two's complement)
ToInt(u) == IF u >= IntHalf THEN u - UIntMod ELSE u

\* Lattice::num_k()
num_k == 9

\* values of `unsigned` and `int` the bounds checks are tried on
UIntSamples == {0, 1, 2, IntHalf - 1, IntHalf, IntHalf + 1, UIntMod - 1}
IntSamples == {0 - IntHalf, -1, 0, 1, 2, IntHalf - 1}

VARIABLES
  ni,          \* ni_
  nj,          \* nj_
  ndebug,      \* whether the build defines NDEBUG
  lat,         \* "live", "destroyed", "aborted" (assert), "crashed" (UB trap)
  spf,         \* spf_:     the buffer it owns ("A", "B" or "null")
  spftemp,     \* spftemp_: the buffer it owns
  buf,         \* the two population buffers, by identity
  node_descs,  \* node_descs_: handles, 0 = nullptr, h > 0 = objs[h]
  pool,        \* mem_pool_: [size, used]
  objs,        \* descriptors constructed in the arena: [off, size, throws]
  calls,       \* number of set_node_desc calls made
  lastset,     \* the last set_node_desc call and its outcome
  nd,          \* the last node_desc(i, j) call and its result
  cleaned,     \* handles ~Lattice invoked ~AbstractNodeDesc on, in order
  cb,          \* the last in_bounds / check_bounds call and its result
  rd,          \* the last f / ftemp call: location read and value
  ref,         \* the last f_ / ft_ call: location of the reference returned
  swaps,       \* parity of the number of swap_f_ptrs calls
  sweep,       \* the running whole-grid sweep: loop position
  phase,       \* the driver's position in the time step
  prevCur,     \* spf_ when the running time step began
  prevNext     \* spftemp_ when the running time step began

vars == <<ni, nj, ndebug, lat, spf, spftemp, buf, node_descs, pool, objs,
          calls, lastset, nd, cleaned, cb, rd, ref, swaps, sweep, phase,
          prevCur, prevNext>>

ctorVars == <<ni, nj, ndebug>>
bufVars == <<spf, spftemp, buf>>
descVars == <<node_descs, pool, objs, calls, lastset, nd, cleaned>>
accVars == <<rd, ref>>
stepVars == <<sweep, phase, prevCur, prevNext>>

(***************************************************************************)
(* Construction.                                                           *)
(***************************************************************************)
\* init_f_(rho): population k of every cell is w_k * rho, kept here as
\* 36 * w_k (16 for k = 0, 4 for k = 1..4, 1 for k = 5..8), rho = 1
init_f_(size) ==
  [x \in 1..size |->
     LET k == (x - 1) % num_k
     IN IF k = 0 THEN 16 ELSE IF k <= 4 THEN 4 ELSE 1]

NoSet == [i |-> 0, j |-> 0, size |-> 0, exhausted |-> FALSE,
          outcome |-> "none", handle |-> 0, slot |-> 0]
NoNd == [op |-> "none", i |-> 0, j |-> 0, slot |-> 0, handle |-> 0, ub |-> FALSE]
NoCb == [op |-> "none", i |-> 0, j |-> 0, res |-> FALSE]
NoAcc == [op |-> "none", i |-> 0, j |-> 0, k |-> 0, b |-> "null", idx |-> 0,
          val |-> 0, ub |-> FALSE]
NoSweep == [op |-> "none", i |-> 0, j |-> 0, ei |-> 0, ej |-> 0, n |-> 0]

\* what no constructor touches
RestInit ==
  /\ lat = "live"
  /\ objs = <<>>
  /\ calls = 0
  /\ lastset = NoSet
  /\ nd = NoNd
  /\ cleaned = <<>>
  /\ cb = NoCb
  /\ rd = NoAcc
  /\ ref = NoAcc
  /\ swaps = 0
  /\ sweep = NoSweep
  /\ phase = "setup"
  /\ prevCur = "null"
  /\ prevNext = "null"

\* Lattice(): no buffers, an empty descriptor array, an empty pool
LatticeDefault ==
  /\ ni = 0
  /\ nj = 0
  /\ spf = "null"
  /\ spftemp = "null"
  /\ buf = [b \in {"A", "B"} |-> <<>>]
  /\ node_descs = <<>>
  /\ pool = [size |-> 0, used |-> 0]
  /\ RestInit

\* Lattice(ni, nj, rho): the sizes are computed in `unsigned`
Lattice(n_i, n_j) ==
  /\ ni = n_i
  /\ nj = n_j
  /\ spf = "A"
  /\ spftemp = "B"
  /\ buf = [b \in {"A", "B"} |-> init_f_((n_i * n_j * num_k) % UIntMod)]
  /\ node_descs = [x \in 1..((n_i * n_j) % UIntMod) |-> 0]
  /\ pool = [size |-> MaxNodeDescSize * n_i * n_j, used |-> 0]
  /\ RestInit

(***************************************************************************)
(* Bounds checking.                                                        *)
(***************************************************************************)
\* in_bounds(const int i, const int j): `i < ni_` compares as unsigned
in_bounds(i, j) ==
  /\ ToUnsigned(i) < ni
  /\ i >= 0
  /\ ToUnsigned(j) < nj
  /\ j >= 0

\* check_bounds(const unsigned i, const unsigned j) throws std::out_of_range:
\* the unsigned arguments are converted to the int parameters of in_bounds
check_bounds_throws(i, j) == ~in_bounds(ToInt(i), ToInt(j))

\* a call in_bounds(i, j)
InBounds(i, j) ==
  /\ lat = "live"
  /\ cb' = [op |-> "in_bounds", i |-> i, j |-> j, res |-> in_bounds(i, j)]
  /\ UNCHANGED <<ctorVars, lat, bufVars, descVars, accVars, swaps, stepVars>>

\* a call check_bounds(i, j); the caller's arguments are converted to
\* the unsigned parameters; res = an exception left the call
CheckBounds(i, j) ==
  /\ lat = "live"
  /\ cb' = [op |-> "check_bounds", i |-> i, j |-> j,
            res |-> check_bounds_throws(ToUnsigned(i), ToUnsigned(j))]
  /\ UNCHANGED <<ctorVars, lat, bufVars, descVars, accVars, swaps, stepVars>>

InitBounds ==
  /\ ndebug \in BOOLEAN
  /\ \E n_i \in UIntSamples, n_j \in UIntSamples : Lattice(n_i, n_j)

NextBounds ==
  \/ \E i \in IntSamples, j \in IntSamples : InBounds(i, j)
  \/ \E i \in IntSamples \cup UIntSamples, j \in IntSamples \cup UIntSamples :
       CheckBounds(i, j)

SpecBounds == InitBounds /\ [][NextBounds]_vars

\* C1: for a lattice ni x nj, check_bounds(i, j) throws exactly when
\* i >= ni or j >= nj or a coordinate is negative, and in_bounds(i, j) is
\* true exactly when check_bounds(i, j) does not throw, wrapped values
\* included.
C1_BoundsContract ==
  /\ cb.op = "check_bounds" =>
       (cb.res <=> (cb.i >= ni \/ cb.j >= nj \/ cb.i < 0 \/ cb.j < 0))
  /\ cb.op = "in_bounds" =>
       (cb.res <=> ~check_bounds_throws(ToUnsigned(cb.i), ToUnsigned(cb.j)))

(***************************************************************************)
(* Node descriptors and the arena.                                         *)
(***************************************************************************)
Range(s) == {s[x] : x \in 1..Len(s)}

\* SimpleMemPool::allocate<Node>(args...): bump allocation of sizeof(Node)
\* units; the handle of the new object, or 0 (nullptr) when the pool has
\* not enough room left
allocate(size) == IF pool.used + size <= pool.size THEN Len(objs) + 1 ELSE 0

\* the element of node_descs_ that node_desc and set_node_desc use
desc_slot(i, j) == (nj * i + j) % UIntMod

\* set_node_desc<Node>(i, j, args...) for in-bounds (i, j), called while
\* the topology is set up, before time-stepping; Node has sizeof = size and
\* a destructor that throws or not
SetNodeDesc(i, j, size, throws) ==
  /\ lat = "live"
  /\ sweep.op = "none"
  /\ phase = "setup"
  /\ calls < MaxSetCalls
  /\ i < ni
  /\ j < nj
  /\ desc_slot(i, j) < Len(node_descs)
  /\ LET pnd == allocate(size)
         slot == desc_slot(i, j)
         failed == (~ndebug /\ pnd = 0)   \* assert(pnd != nullptr)
     IN /\ objs' = IF pnd = 0 THEN objs
                   ELSE Append(objs, [off |-> pool.used, size |-> size,
                                      throws |-> throws])
        /\ pool' = IF pnd = 0 THEN pool ELSE [pool EXCEPT !.used = @ + size]
        /\ node_descs' = IF failed THEN node_descs
                         ELSE [node_descs EXCEPT ![slot + 1] = pnd]
        /\ lat' = IF failed THEN "aborted" ELSE "live"
        /\ lastset' = [i |-> i, j |-> j, size |-> size,
                       exhausted |-> (pnd = 0),
                       outcome |-> IF failed THEN "assert" ELSE "ok",
                       handle |-> pnd, slot |-> slot]
  /\ calls' = calls + 1
  /\ nd' = NoNd
  /\ UNCHANGED <<ctorVars, bufVars, cleaned, cb, accVars, swaps, stepVars>>

\* node_desc(i, j) for in-bounds (i, j): *(node_descs_[nj_ * i + j]);
\* dereferencing nullptr is undefined
NodeDesc(i, j) ==
  /\ lat = "live"
  /\ sweep.op = "none"
  /\ i < ni
  /\ j < nj
  /\ desc_slot(i, j) < Len(node_descs)
  /\ LET h == node_descs[desc_slot(i, j) + 1]
     IN nd' = [op |-> "node_desc", i |-> i, j |-> j, slot |-> desc_slot(i, j),
               handle |-> h, ub |-> (h = 0)]
  /\ UNCHANGED <<ctorVars, lat, bufVars, node_descs, pool, objs, calls,
                 lastset, cleaned, cb, accVars, swaps, stepVars>>

\* ~Lattice(): the handles ~AbstractNodeDesc is invoked on, from element k
\* on. One try block holds the whole loop, so the first destructor that
\* throws ends it. Invoking the destructor through nullptr is undefined:
\* the build traps there, or (cont) carries on.
RECURSIVE DtorTrace(_, _)
DtorTrace(k, cont) ==
  IF k > Len(node_descs) THEN <<>>
  ELSE LET h == node_descs[k]
       IN IF h = 0
          THEN <<0>> \o (IF cont THEN DtorTrace(k + 1, cont) ELSE <<>>)
          ELSE IF objs[h].throws THEN <<h>>
          ELSE <<h>> \o DtorTrace(k + 1, cont)

Destroy(cont) ==
  /\ lat = "live"
  /\ sweep.op = "none"
  /\ cleaned' = DtorTrace(1, cont)
  /\ lat' = IF ~cont /\ 0 \in Range(DtorTrace(1, cont))
            THEN "crashed" ELSE "destroyed"
  /\ UNCHANGED <<ctorVars, bufVars, node_descs, pool, objs, calls, lastset,
                 nd, cb, accVars, swaps, stepVars>>

Init ==
  /\ ndebug \in BOOLEAN
  /\ \/ LatticeDefault
     \/ \E n_i \in 0..MaxNi, n_j \in 0..MaxNj : Lattice(n_i, n_j)

Next ==
  \/ \E i \in 0..MaxNi, j \in 0..MaxNj, size \in 1..MaxNodeDescSize,
        throws \in BOOLEAN : SetNodeDesc(i, j, size, throws)
  \/ \E i \in 0..MaxNi, j \in 0..MaxNj : NodeDesc(i, j)
  \/ \E cont \in BOOLEAN : Destroy(cont)

Spec == Init /\ [][Next]_vars

\* C4: a set_node_desc call made when the arena has no room left ends in
\* an assertion failure; it never completes normally, never records a null
\* handle for the cell, and no descriptor's storage overlaps another's or
\* leaves the arena.
C4_ExhaustionFailsLoudly ==
  /\ lastset.exhausted => (lastset.outcome = "assert" /\ lat = "aborted")
  /\ lastset.outcome = "ok" => node_descs[lastset.slot + 1] # 0
  /\ \A a \in 1..Len(objs) :
       /\ objs[a].off + objs[a].size <= pool.size
       /\ \A b \in 1..Len(objs) :
            a < b => objs[a].off + objs[a].size <= objs[b].off

\* C5: ~Lattice never lets an error out, and a descriptor whose cleanup
\* fails does not keep any other descriptor of the array from having its
\* cleanup invoked.
C5_DtorCleansAll ==
  /\ lat # "propagated"
  /\ lat = "destroyed" =>
       \A x \in 1..Len(node_descs) :
         node_descs[x] # 0 => node_descs[x] \in Range(cleaned)

\* C6: a set_node_desc call on in-bounds (i, j) records the newly
\* constructed descriptor as the handle of cell (i, j) (also when the cell
\* had one), node_desc(i, j) then returns that descriptor, and the handle
\* of every other cell is unchanged.
C6_SetNodeDescFrame ==
  /\ [][(calls' = calls + 1 /\ lastset'.outcome = "ok") =>
          /\ Len(objs') = Len(objs) + 1
          /\ lastset'.handle = Len(objs')
          /\ node_descs'[lastset'.slot + 1] = lastset'.handle
          /\ \A x \in 1..Len(node_descs) :
               x # lastset'.slot + 1 => node_descs'[x] = node_descs[x]]_vars
  /\ [](nd.op = "node_desc" =>
          (nd.i = lastset.i /\ nd.j = lastset.j /\ lastset.outcome = "ok"
             => nd.handle = lastset.handle /\ ~nd.ub))

\* C10: ~Lattice invokes descriptor cleanup only on handles of descriptors
\* constructed in the arena, never on the null handle of an unassigned cell.
C10_DtorOnlyConstructed ==
  lat \in {"destroyed", "crashed"} =>
    \A x \in 1..Len(cleaned) : cleaned[x] \in 1..Len(objs)

(***************************************************************************)
(* Population accessors and the buffer swap.                               *)
(***************************************************************************)
\* f / ftemp: element ni_ * (i * nj_ + j) + k of the buffer
f_idx(i, j, k) == (ni * ((i * nj + j) % UIntMod) + k) % UIntMod

\* pf_ / pft_: element (i * nj_ + j) * num_k() of the buffer
pf_idx(i, j) == (((i * nj + j) % UIntMod) * num_k) % UIntMod

\* f_ / ft_: *(pf_(i, j) + k)
f__idx(i, j, k) == pf_idx(i, j) + k

\* values a read outside the buffer may yield
Garbage == {0, 16}

\* the call `op` on (i, j, k) touches element idx of buffer b; outside the
\* buffer the access is undefined: the build traps, or yields garbage.
\* rec records the call; the record of the other accessor family is kept
\* while it is about the same (i, j, k)
Access(op, i, j, k, b, idx, rec, other) ==
  /\ lat = "live"
  /\ sweep.op = "none"
  /\ i < ni
  /\ j < nj
  /\ k < num_k
  /\ IF b # "null" /\ idx < Len(buf[b])
     THEN /\ rec' = [op |-> op, i |-> i, j |-> j, k |-> k, b |-> b,
                     idx |-> idx, val |-> buf[b][idx + 1], ub |-> FALSE]
          /\ lat' = lat
     ELSE \/ /\ rec' = [op |-> op, i |-> i, j |-> j, k |-> k, b |-> b,
                        idx |-> idx, val |-> 0, ub |-> TRUE]
             /\ lat' = "crashed"
          \/ /\ \E g \in Garbage :
                  rec' = [op |-> op, i |-> i, j |-> j, k |-> k, b |-> b,
                          idx |-> idx, val |-> g, ub |-> TRUE]
             /\ lat' = lat
  /\ other' = IF other.i = i /\ other.j = j /\ other.k = k THEN other
              ELSE NoAcc
  /\ UNCHANGED <<ctorVars, bufVars, descVars, cb, swaps, stepVars>>

\* f(i, j, k) and ftemp(i, j, k): the value read
F(i, j, k) == Access("f", i, j, k, spf, f_idx(i, j, k), rd, ref)
Ftemp(i, j, k) == Access("ftemp", i, j, k, spftemp, f_idx(i, j, k), rd, ref)

\* f_(i, j, k) and ft_(i, j, k): the element the returned reference names
F_(i, j, k) == Access("f_", i, j, k, spf, f__idx(i, j, k), ref, rd)
Ft_(i, j, k) == Access("ft_", i, j, k, spftemp, f__idx(i, j, k), ref, rd)

\* spf_.swap(spftemp_): the new <<spf_, spftemp_>>
swap_f_ptrs_alias == <<spftemp, spftemp>>
swap_f_ptrs_noop == <<spf, spftemp>>
swap_f_ptrs == <<spftemp, spf>>

\* a call swap_f_ptrs(); the records of earlier accesses are dropped, and
\* the driver's time step is complete if stream and collide preceded
SwapFPtrs ==
  /\ lat = "live"
  /\ sweep.op = "none"
  /\ spf' = swap_f_ptrs[1]
  /\ spftemp' = swap_f_ptrs[2]
  /\ swaps' = 1 - swaps
  /\ rd' = NoAcc
  /\ ref' = NoAcc
  /\ phase' = IF phase = "collided" THEN "stepped"
            ELSE IF phase = "setup" THEN "setup" ELSE "ready"
  /\ UNCHANGED <<ctorVars, lat, buf, descVars, cb, sweep, prevCur, prevNext>>

InitAccess ==
  /\ ndebug \in BOOLEAN
  /\ \E n_i \in 0..MaxAccNi, n_j \in 0..MaxAccNj : Lattice(n_i, n_j)

NextAccess ==
  \/ \E i \in 0..MaxAccNi, j \in 0..MaxAccNj, k \in 0..(num_k - 1) : F(i, j, k)
  \/ \E i \in 0..MaxAccNi, j \in 0..MaxAccNj, k \in 0..(num_k - 1) : Ftemp(i, j, k)
  \/ \E i \in 0..MaxAccNi, j \in 0..MaxAccNj, k \in 0..(num_k - 1) : F_(i, j, k)
  \/ \E i \in 0..MaxAccNi, j \in 0..MaxAccNj, k \in 0..(num_k - 1) : Ft_(i, j, k)
  \/ SwapFPtrs

SpecAccess == InitAccess /\ [][NextAccess]_vars

SameTriple(a, b) == a.i = b.i /\ a.j = b.j /\ a.k = b.k

InBoundsTriples == {t \in (0..MaxAccNi) \X (0..MaxAccNj) \X (0..(num_k - 1)) :
                      t[1] < ni /\ t[2] < nj}

\* C8: for in-bounds (i, j) and k in 0..8, f(i, j, k) reads the element of
\* the current buffer that f_(i, j, k) names, ftemp(i, j, k) the element of
\* the next buffer that ft_(i, j, k) names, and distinct triples read
\* distinct elements.
C8_ReadIsWhatIsWritten ==
  /\ (rd.op = "f" /\ ref.op = "f_" /\ SameTriple(rd, ref)) =>
       (rd.b = ref.b /\ rd.idx = ref.idx /\ rd.val = ref.val)
  /\ (rd.op = "ftemp" /\ ref.op = "ft_" /\ SameTriple(rd, ref)) =>
       (rd.b = ref.b /\ rd.idx = ref.idx /\ rd.val = ref.val)
  /\ rd.op # "none" =>
       \A t \in InBoundsTriples :
         t # <<rd.i, rd.j, rd.k>> => f_idx(t[1], t[2], t[3]) # rd.idx

\* C9: for in-bounds (i, j) and k in 0..8, the element index f, ftemp, f_
\* and ft_ compute lies in [0, ni*nj*9), inside the buffer of ni*nj*9
\* elements.
C9_IndexInsideBuffer ==
  /\ rd.op # "none" =>
       (rd.idx < ni * nj * num_k /\ Len(buf[rd.b]) = ni * nj * num_k)
  /\ ref.op # "none" =>
       (ref.idx < ni * nj * num_k /\ Len(buf[ref.b]) = ni * nj * num_k)

(***************************************************************************)
(* Whole-grid stream and collide_and_bound, and the time step.             *)
(***************************************************************************)
\* AbstractNodeDesc::stream(lat, i, j): the descriptor of cell (i, j) puts
\* streamed populations in the next buffer through ft_; kept here as the
\* mark 2 in the cell's element 0
NodeDescStream(i, j) ==
  [buf EXCEPT ![spftemp] = [@ EXCEPT ![f__idx(i, j, 0) + 1] = 2]]

\* AbstractNodeDesc::collide_and_bound(lat, mmap, cman, i, j): the
\* descriptor puts post-collision populations in the current buffer through
\* f_; kept here as the mark 3 in the cell's element 0
NodeDescCollide(i, j) ==
  [buf EXCEPT ![spf] = [@ EXCEPT ![f__idx(i, j, 0) + 1] = 3]]

\* stream(): stream(0, ni_ - 1, 0, nj_ - 1), the bounds computed in unsigned
Stream ==
  /\ lat = "live"
  /\ sweep.op = "none"
  /\ phase \in {"setup", "ready", "stepped"}
  /\ sweep' = [op |-> "stream", i |-> 0, j |-> 0, ei |-> ToUnsigned(ni - 1),
               ej |-> ToUnsigned(nj - 1), n |-> 0]
  /\ prevCur' = spf
  /\ prevNext' = spftemp
  /\ phase' = "streaming"
  /\ UNCHANGED <<ctorVars, lat, bufVars, descVars, cb, accVars, swaps>>

\* collide_and_bound(mmap, cman):
\* collide_and_bound(mmap, cman, 0, ni_ - 1, 0, nj_ - 1)
CollideAndBound ==
  /\ lat = "live"
  /\ sweep.op = "none"
  /\ phase = "streamed"
  /\ sweep' = [op |-> "collide", i |-> 0, j |-> 0, ei |-> ToUnsigned(ni - 1),
               ej |-> ToUnsigned(nj - 1), n |-> 0]
  /\ phase' = "colliding"
  /\ UNCHANGED <<ctorVars, lat, bufVars, descVars, cb, accVars, swaps,
                 prevCur, prevNext>>

\* the loop body, i <= ei and j <= ej: stream(i, j) or
\* collide_and_bound(mmap, cman, i, j) calls through node_desc(i, j), then
\* ++j. Reading node_descs_ past its end, or calling through nullptr, is
\* undefined: the build traps, or the call has no effect and the loop goes on
SweepCell ==
  /\ lat = "live"
  /\ sweep.op # "none"
  /\ sweep.i <= sweep.ei
  /\ sweep.j <= sweep.ej
  /\ LET slot == desc_slot(sweep.i, sweep.j)
         valid == slot < Len(node_descs) /\ node_descs[slot + 1] # 0
         next == [sweep EXCEPT !.j = (@ + 1) % UIntMod,
                               !.n = IF @ < UIntMod THEN @ + 1 ELSE @]
     IN IF valid
        THEN /\ buf' = IF sweep.op = "stream"
                       THEN NodeDescStream(sweep.i, sweep.j)
                       ELSE NodeDescCollide(sweep.i, sweep.j)
             /\ sweep' = next
             /\ lat' = lat
        ELSE \/ /\ lat' = "crashed"
                /\ sweep' = [sweep EXCEPT !.n = IF @ < UIntMod THEN @ + 1 ELSE @]
                /\ buf' = buf
             \/ /\ lat' = lat
                /\ sweep' = next
                /\ buf' = buf
  /\ UNCHANGED <<ctorVars, spf, spftemp, descVars, cb, accVars, swaps, phase,
                 prevCur, prevNext>>

\* the inner loop ends, j > ej: ++i and j = bj
SweepRow ==
  /\ lat = "live"
  /\ sweep.op # "none"
  /\ sweep.i <= sweep.ei
  /\ sweep.j > sweep.ej
  /\ sweep' = [sweep EXCEPT !.i = (@ + 1) % UIntMod, !.j = 0]
  /\ UNCHANGED <<ctorVars, lat, bufVars, descVars, cb, accVars, swaps, phase,
                 prevCur, prevNext>>

\* the outer loop ends, i > ei: the call returns
SweepReturn ==
  /\ lat = "live"
  /\ sweep.op # "none"
  /\ sweep.i > sweep.ei
  /\ phase' = IF sweep.op = "stream" THEN "streamed" ELSE "collided"
  /\ sweep' = [NoSweep EXCEPT !.n = sweep.n]
  /\ UNCHANGED <<ctorVars, lat, bufVars, descVars, cb, accVars, swaps,
                 prevCur, prevNext>>

InitStep ==
  /\ ndebug \in BOOLEAN
  /\ \/ LatticeDefault
     \/ \E n_i \in 0..MaxStepNi, n_j \in 0..MaxStepNj : Lattice(n_i, n_j)

NextStep ==
  \/ \E i \in 0..MaxStepNi, j \in 0..MaxStepNj :
       SetNodeDesc(i, j, MaxNodeDescSize, FALSE)
  \/ Stream
  \/ CollideAndBound
  \/ SweepCell
  \/ SweepRow
  \/ SweepReturn
  \/ SwapFPtrs

SpecStep == InitStep /\ [][NextStep]_vars

\* C2: one swap_f_ptrs() exchanges the roles of the two buffers, two
\* consecutive calls restore them, and no call changes a population value
\* of either buffer.
C2_SwapInvolution ==
  /\ [](swaps = 0 => <<spf, spftemp>> \in {<<"A", "B">>, <<"null", "null">>})
  /\ [](swaps = 1 => <<spf, spftemp>> \in {<<"B", "A">>, <<"null", "null">>})
  /\ [][swaps' # swaps =>
          (spf' = spftemp /\ spftemp' = spf /\ buf' = buf)]_vars

\* two swaps later the roles are the constructor's again, the buffers hold
\* different populations
C2_Witness ==
  /\ swaps = 0
  /\ phase = "stepped"
  /\ prevCur = "B"
  /\ spf = "A"
  /\ buf["A"] # buf["B"]

\* C3: on an empty lattice (ni*nj = 0) whole-grid stream() and
\* collide_and_bound() call no cell's descriptor, and return.
C3_EmptySweepIsNoOp ==
  (ni * nj = 0) =>
    /\ sweep.n = 0
    /\ lat # "crashed"
    /\ sweep.op # "none" => sweep.i > sweep.ei

\* C7: after a time step stream(), collide_and_bound(), swap_f_ptrs() the
\* current buffer is the one that was next during the step (and the next
\* one the one that was current), and no step of stream or collide_and_bound
\* changes which buffer is current and which is next.
C7_StepRoles ==
  /\ [](phase = "stepped" => (spf = prevNext /\ spftemp = prevCur))
  /\ [][(sweep.op # "none" \/ sweep'.op # "none") =>
          (spf' = spf /\ spftemp' = spftemp)]_vars

\* a completed step on a non-empty lattice: what stream produced in the
\* next buffer is now read as current
C7_Witness ==
  /\ phase = "stepped"
  /\ ni * nj > 0
  /\ spf = prevNext
  /\ spf # "null"
  /\ buf[spf][1] = 2
  /\ buf[spftemp][1] = 3

====
